---- MODULE Spec2Model ----
(***************************************************************************)
(* Model of parse_sav_file (test-python-parser.py): the harness that loads *)
(* a save image, walks the party slots and the flat box-storage slots,     *)
(* decodes every non-empty slot, groups the box records in runs of 30      *)
(* consumed slots and returns {party, boxes, total_pokemon}.               *)
(*                                                                         *)
(* SaveFile, the two extractors and the two record parsers live in         *)
(* rr-pokemon-exporter/src, which is not part of the sources at hand; they *)
(* are modelled from the written design (sections 4.1 - 4.3): a structural *)
(* check on the image, empty-slot marking, and XOR decryption followed by  *)
(* the 16-bit wrapping checksum.                                           *)
(***************************************************************************)
EXTENDS Integers, Sequences, FiniteSets

\* ------------------------------------------------------------------ bounds

\* 32-bit words in a record's encrypted payload (the real layout has more).
PayloadWords == 1
\* Longest flat box-storage sequence drawn as input.
MaxBoxSlots == 65
\* Longest freely mixed tail that follows the uniform head of a box input.
MaxMixed == 2

\* ------------------------------------------------------- program constants

\* "Every 30 Pokemon, start a new box": pokemon_count % 30 == 0.
BOX_SIZE == 30
\* The party extractor yields at most six slots (design, section 4.2).
PARTY_SIZE == 6

\* Python's None (a record, so that it compares with records).
None == [none |-> TRUE]

\* ------------------------------------------------------------ byte helpers

Byte == 0..255

RECURSIVE XorBits(_, _, _)
XorBits(a, b, n) ==
    IF n = 0 THEN 0
    ELSE (((a % 2) + (b % 2)) % 2) + 2 * XorBits(a \div 2, b \div 2, n - 1)

\* Bitwise XOR of two bytes, tabulated once.
XorTable == [a \in Byte |-> [b \in Byte |-> XorBits(a, b, 8)]]

XorByte(a, b) == XorTable[a][b]

PayloadLen == 4 * PayloadWords

\* ------------------------------------------------- RecordDecoder (design)

\* Step 1: the key is the XOR of the two stored 32-bit seeds (kept here as
\* four little-endian bytes each).
XorKey(pid, otid) == [j \in 1..4 |-> XorByte(pid[j], otid[j])]

\* Step 1: the key is repeated, word-aligned, over every 32-bit word of the
\* payload. XOR is its own inverse, so the same transform encrypts.
Crypt(bytes, key) ==
    [j \in 1..Len(bytes) |-> XorByte(bytes[j], key[((j - 1) % 4) + 1])]

\* The k-th little-endian 16-bit word of a byte sequence (k from 1).
Word16(bytes, k) == bytes[2 * k - 1] + 256 * bytes[2 * k]

RECURSIVE SumWords(_, _)
SumWords(bytes, k) ==
    IF k = 0 THEN 0
    ELSE (SumWords(bytes, k - 1) + Word16(bytes, k)) % 65536

\* The sum kept to its low byte only.
Checksum16_NoHighByte(plain) == SumWords(plain, Len(plain) \div 2) % 256

\* Step 3: the wrapping sum of all 16-bit words of the decrypted payload.
Checksum16(plain) == SumWords(plain, Len(plain) \div 2)

\* decode(slot): decrypt, validate the checksum, unpack. A mismatch is
\* DecodeError::Checksum; otherwise the record carries the fields of the
\* Growth substructure that the payload modelled here has room for.
Decode(slot) ==
    LET plain == Crypt(slot.payload, XorKey(slot.pid, slot.otid))
    IN  IF Checksum16(plain) # slot.checksum
        THEN [ok |-> FALSE, error |-> "Checksum"]
        ELSE [ok |-> TRUE,
              pokemon |-> [species_id |-> Word16(plain, 1),
                           held_item_id |-> Word16(plain, 2)]]

\* The matching encoder of the round-trip property (section 8): key
\* derivation, checksum over the plaintext, encryption.
Encode(pid, otid, plain) ==
    [pid |-> pid, otid |-> otid,
     checksum |-> Checksum16(plain),
     payload |-> Crypt(plain, XorKey(pid, otid))]

\* ------------------------------------------------- SlotExtractor (design)

\* Emptiness test: the slot is entirely zero bytes.
IsEmptySlot(slot) ==
    /\ \A j \in 1..4 : slot.pid[j] = 0 /\ slot.otid[j] = 0
    /\ slot.checksum = 0
    /\ \A j \in 1..Len(slot.payload) : slot.payload[j] = 0

\* The extractors mark an empty slot with a falsy value.
MarkEmpty(slot) == IF IsEmptySlot(slot) THEN None ELSE slot

\* Python truthiness of an extracted slot (`if p:`).
Truthy(p) == p # None

\* ---------------------------------------------------------- sample inputs

ZeroBytes(n) == [j \in 1..n |-> 0]

\* An all-zero slot. Its checksum field matches its payload, so only the
\* emptiness test keeps it from decoding into a species-0 record.
ZeroSlot ==
    [pid |-> ZeroBytes(4), otid |-> ZeroBytes(4), checksum |-> 0,
     payload |-> ZeroBytes(PayloadLen)]

SamplePlain == [j \in 1..PayloadLen |-> (37 * j) % 256]

\* A populated slot whose checksum validates.
GoodSlot == Encode(<<120, 86, 52, 18>>, <<1, 0, 0, 128>>, SamplePlain)

\* The same slot with one payload bit flipped and the checksum left alone.
BadSlot == [GoodSlot EXCEPT !.payload[1] = XorByte(@, 1)]

\* The image names each slot by the sample record it holds.
SampleSlots == {"zero", "good", "bad"}

\* The bytes of a slot of the image.
SlotBytes(name) ==
    CASE name = "zero" -> ZeroSlot
      [] name = "good" -> GoodSlot
      [] name = "bad" -> BadSlot

Uniform(s, n) == [j \in 1..n |-> s]

SeqsUpTo(S, n) == UNION {[1..m -> S] : m \in 0..n}

\* Box storage: a uniform head followed by a short freely mixed tail.
StorageInputs ==
    {Uniform(s, a) \o t :
        s \in SampleSlots,
        a \in 0..MaxBoxSlots,
        t \in SeqsUpTo(SampleSlots, MaxMixed)}

\* Party: every sequence of at most PARTY_SIZE slots.
PartyInputs == SeqsUpTo(SampleSlots, PARTY_SIZE)

\* The party paired with a varying storage: a starter and a corrupt slot.
StarterParties == {<<"good", "bad">>}

\* The save images drawn: either the party varies freely and storage is
\* empty, or the party is one of the starter parties and storage varies.
Images ==
    [valid : BOOLEAN, party : PartyInputs, storage : {<<>>}]
    \cup [valid : BOOLEAN, party : StarterParties, storage : StorageInputs]

\* Seeds and plaintext bytes the decoder is exercised on.
SeedSamples == {<<0, 0, 0, 0>>, <<120, 86, 52, 18>>, <<255, 255, 255, 255>>}
PlainBytes == {0, 255}
TamperBytes == {0, 1, 127, 128, 255}

\* ------------------------------------------------------------------ state

VARIABLES
    raw,            \* the save image read from the file
    pc,             \* position in parse_sav_file
    loads,          \* how many times SaveFile(raw) was constructed
    i,              \* enumerate() index of the running loop
    party,          \* `party`
    boxes,          \* `boxes`
    current_box,    \* `current_box`
    pokemon_count,  \* `pokemon_count`
    parsed,         \* slots handed to a record parser, as <<region, index>>
    diagnostics,    \* the "Error parsing ... slot i" lines printed
    result,         \* the returned dictionary, None before the return
    sample,         \* decoder exercise: a valid encoded record
    tampered,       \* decoder exercise: the record after one byte changed
    decoded         \* decoder exercise: what decode returned

vars ==
    <<raw, pc, loads, i, party, boxes, current_box, pokemon_count, parsed,
      diagnostics, result, sample, tampered, decoded>>

batchVars ==
    <<raw, loads, i, party, boxes, current_box, pokemon_count, parsed,
      diagnostics, result>>

\* party_extractor.pokemon_in_party / box_extractor.pokemon_in_storage.
ExtractSlots(rawSlots) ==
    [j \in 1..Len(rawSlots) |-> MarkEmpty(SlotBytes(rawSlots[j]))]

\* party_extractor.pokemon_in_party
PartyRaw == ExtractSlots(raw.party)

\* box_extractor.pokemon_in_storage
BoxRaw == ExtractSlots(raw.storage)

\* party_parser.parse / box_parser.parse: both share the record layout. A
\* falsy slot is no record at all and makes the parser raise.
Parse(p) ==
    IF p = None THEN [ok |-> FALSE, error |-> "TypeError"] ELSE Decode(p)

Init ==
    /\ raw \in Images
    /\ pc = "start"
    /\ loads = 0
    /\ i = 0
    /\ party = <<>>
    /\ boxes = <<>>
    /\ current_box = <<>>
    /\ pokemon_count = 0
    /\ parsed = {}
    /\ diagnostics = <<>>
    /\ result = None
    /\ sample = None
    /\ tampered = None
    /\ decoded = None

\* ------------------------------------------------ parse_sav_file, by step

\* A corrupt image swallowed: the parse carries on as if it had loaded.
SaveFilePc_IgnoreCorrupt(valid) == "party"

\* save = SaveFile(raw): a corrupt image raises, and the handler at the end
\* of the function prints and re-raises; otherwise the party loop is next.
SaveFilePc(valid) == IF valid THEN "party" ELSE "raised"

LoadSave ==
    /\ pc = "start"
    /\ loads' = loads + 1
    /\ pc' = SaveFilePc(raw.valid)
    /\ UNCHANGED <<raw, i, party, boxes, current_box, pokemon_count, parsed,
                   diagnostics, result, sample, tampered, decoded>>

\* Every slot is handed to the parser, empty or not.
ShouldParse_Always(p) == TRUE

\* `if p:  # Only parse non-empty slots`
ShouldParse(p) == Truthy(p)

\* The new record put in front instead of at the end.
OnSuccess_Prepend(list, idx, pokemon) ==
    <<[slot |-> idx, pkmn |-> pokemon]>> \o list

\* `party.append(pokemon)` / `current_box.append(pokemon)`. `slot` is the
\* index the record was decoded from: provenance the model carries along.
OnSuccess(list, idx, pokemon) == Append(list, [slot |-> idx, pkmn |-> pokemon])

\* A failed slot filled in with a default record.
OnFailure_Default(list, idx) ==
    Append(list, [slot |-> idx,
                  pkmn |-> [species_id |-> 0, held_item_id |-> 0]])

\* `except Exception as e:` appends nothing.
OnFailure(list, idx) == list

\* The failure swallowed without a word.
LogFailure_Silent(log, region, idx) == log

\* `print(f"Error parsing party slot {i}: {e}")` and its box twin.
LogFailure(log, region, idx) == Append(log, <<region, idx>>)

\* The exception left to reach the outer handler, which re-raises.
AfterFailure_Abort(at) == "raised"

\* The per-slot handler swallows the exception: the loop goes on.
AfterFailure(at) == at

\* The list after a slot: untouched for an empty slot, extended on a
\* successful parse, handled by the except branch otherwise.
AfterSlot(list, idx, p) ==
    IF ~ShouldParse(p) THEN list
    ELSE IF Parse(p).ok THEN OnSuccess(list, idx, Parse(p).pokemon)
    ELSE OnFailure(list, idx)

\* Whether the slot's parse was attempted and raised.
Failed(p) == ShouldParse(p) /\ ~Parse(p).ok

\* One iteration of `for i, p in enumerate(party_raw)`.
PartyStep ==
    /\ pc = "party"
    /\ i < Len(PartyRaw)
    /\ LET p == PartyRaw[i + 1]
       IN  /\ party' = AfterSlot(party, i, p)
           /\ parsed' = IF ShouldParse(p) THEN parsed \cup {<<"party", i>>}
                        ELSE parsed
           /\ diagnostics' = IF Failed(p) THEN LogFailure(diagnostics, "party", i)
                             ELSE diagnostics
           /\ pc' = IF Failed(p) THEN AfterFailure(pc) ELSE pc
    /\ i' = i + 1
    /\ UNCHANGED <<raw, loads, boxes, current_box, pokemon_count, result,
                   sample, tampered, decoded>>

\* The party loop is exhausted; the box loop starts at index 0.
PartyDone ==
    /\ pc = "party"
    /\ i = Len(PartyRaw)
    /\ pc' = "boxes"
    /\ i' = 0
    /\ UNCHANGED <<raw, loads, party, boxes, current_box, pokemon_count,
                   parsed, diagnostics, result, sample, tampered, decoded>>

\* Only populated slots counted toward the boundary.
NextCount_PopulatedOnly(count, p) == IF Truthy(p) THEN count + 1 ELSE count

\* `pokemon_count += 1`, outside the `if p:`: every slot counts.
NextCount(count, p) == count + 1

\* The boundary tested against the count before the increment.
BoxComplete_BeforeIncrement(count) == (count - 1) % BOX_SIZE = 0

\* `if pokemon_count % 30 == 0` after the increment.
BoxComplete(count) == count % BOX_SIZE = 0

\* One iteration of `for i, p in enumerate(box_raw)`: decode a non-empty
\* slot, count the slot, close the box on every 30th slot.
BoxStep ==
    /\ pc = "boxes"
    /\ i < Len(BoxRaw)
    /\ LET p == BoxRaw[i + 1]
           box == AfterSlot(current_box, i, p)
           count == NextCount(pokemon_count, p)
       IN  /\ parsed' = IF ShouldParse(p) THEN parsed \cup {<<"box", i>>}
                        ELSE parsed
           /\ diagnostics' = IF Failed(p) THEN LogFailure(diagnostics, "box", i)
                             ELSE diagnostics
           /\ pc' = IF Failed(p) THEN AfterFailure(pc) ELSE pc
           /\ pokemon_count' = count
           /\ boxes' = IF BoxComplete(count) THEN Append(boxes, box) ELSE boxes
           /\ current_box' = IF BoxComplete(count) THEN <<>> ELSE box
    /\ i' = i + 1
    /\ UNCHANGED <<raw, loads, party, result, sample, tampered, decoded>>

\* The last box appended whether or not it holds a record.
FlushLast_Always(groups, box) == Append(groups, box)

\* "Add the last box if it has Pokemon": `if current_box:`.
FlushLast(groups, box) == IF box # <<>> THEN Append(groups, box) ELSE groups

\* After the box loop.
BoxDone ==
    /\ pc = "boxes"
    /\ i = Len(BoxRaw)
    /\ boxes' = FlushLast(boxes, current_box)
    /\ pc' = "convert"
    /\ UNCHANGED <<raw, loads, i, party, current_box, pokemon_count, parsed,
                   diagnostics, result, sample, tampered, decoded>>

\* pokemon_to_dict: the fields copied out of the record, with the species
\* and item names looked up by id. `slot` is the provenance the model carries along.
PokemonToDict(entry) ==
    [slot |-> entry.slot,
     species_id |-> entry.pkmn.species_id,
     name |-> <<"species", entry.pkmn.species_id>>,
     held_item_id |-> entry.pkmn.held_item_id,
     held_item_name |-> <<"item", entry.pkmn.held_item_id>>]

DictsOf(entries) == [j \in 1..Len(entries) |-> PokemonToDict(entries[j])]

RECURSIVE SumLen(_, _)
\* sum(len(box) for box in boxes), over the first k boxes.
SumLen(groups, k) ==
    IF k = 0 THEN 0 ELSE SumLen(groups, k - 1) + Len(groups[k])

\* The returned dictionary.
ResultOf(partyList, boxList) ==
    [party |-> DictsOf(partyList),
     boxes |-> [k \in 1..Len(boxList) |-> DictsOf(boxList[k])],
     total_pokemon |-> Len(partyList) + SumLen(boxList, Len(boxList))]

\* Build the dictionaries and return.
BuildResult ==
    /\ pc = "convert"
    /\ result' = ResultOf(party, boxes)
    /\ pc' = "done"
    /\ UNCHANGED <<raw, loads, i, party, boxes, current_box, pokemon_count,
                   parsed, diagnostics, sample, tampered, decoded>>

Next ==
    \/ LoadSave
    \/ PartyStep
    \/ PartyDone
    \/ BoxStep
    \/ BoxDone
    \/ BuildResult

Spec == Init /\ [][Next]_vars

\* ------------------------------------------------ the decoder on its own

\* A record built by the encoder from sampled seeds and plaintext; nothing
\* of the batch is running.
InitDecoder ==
    /\ sample \in {Encode(pid, otid, plain) :
                      pid \in SeedSamples, otid \in SeedSamples,
                      plain \in [1..PayloadLen -> PlainBytes]}
    /\ tampered = None
    /\ decoded = None
    /\ raw = [valid |-> TRUE, party |-> <<>>, storage |-> <<>>]
    /\ pc = "decoder"
    /\ loads = 0
    /\ i = 0
    /\ party = <<>>
    /\ boxes = <<>>
    /\ current_box = <<>>
    /\ pokemon_count = 0
    /\ parsed = {}
    /\ diagnostics = <<>>
    /\ result = None

\* One byte of the encrypted payload is overwritten with a different value;
\* the stored checksum is left as it was.
Tamper ==
    /\ pc = "decoder"
    /\ tampered = None
    /\ decoded = None
    /\ \E pos \in 1..PayloadLen, v \in TamperBytes :
          /\ v # sample.payload[pos]
          /\ tampered' = [sample EXCEPT !.payload[pos] = v]
    /\ UNCHANGED <<pc, sample, decoded>>
    /\ UNCHANGED batchVars

\* decode() is run on the record as it now stands.
DecodeRecord ==
    /\ pc = "decoder"
    /\ decoded = None
    /\ decoded' = Decode(IF tampered = None THEN sample ELSE tampered)
    /\ UNCHANGED <<pc, sample, tampered>>
    /\ UNCHANGED batchVars

NextDecoder ==
    \/ Tamper
    \/ DecodeRecord

SpecDecoder == InitDecoder /\ [][NextDecoder]_vars

\* ----------------------------------------------------- what the claims use

\* A slot of the image that is all zero.
Empty(name) == IsEmptySlot(SlotBytes(name))

\* A slot of the image that is not empty and whose decode succeeds.
Decodable(name) == ~Empty(name) /\ Decode(SlotBytes(name)).ok

\* A slot of the image that is not empty and whose decode fails.
Failing(name) == ~Empty(name) /\ ~Decode(SlotBytes(name)).ok

RECURSIVE IndicesWhere(_, _, _)
\* The 0-based indices j < n of the slots that are decodable (want = TRUE)
\* or failing (want = FALSE), ascending.
IndicesWhere(slots, n, want) ==
    IF n = 0 THEN <<>>
    ELSE IF (want /\ Decodable(slots[n])) \/ (~want /\ Failing(slots[n]))
         THEN Append(IndicesWhere(slots, n - 1, want), n - 1)
         ELSE IndicesWhere(slots, n - 1, want)

DecodableIndices(slots) == IndicesWhere(slots, Len(slots), TRUE)

FailingIndices(slots) == IndicesWhere(slots, Len(slots), FALSE)

\* The slot indices a list of returned dictionaries was decoded from.
SlotsOf(dicts) == [j \in 1..Len(dicts) |-> dicts[j].slot]

Range(f) == {f[j] : j \in DOMAIN f}

\* The dictionary a correct decode of raw slot idx of `slots` gives.
ExpectedDict(slots, idx) ==
    PokemonToDict([slot |-> idx,
                   pkmn |-> Decode(SlotBytes(slots[idx + 1])).pokemon])

Finished == pc = "done"

\* ------------------------------------------------------------------ C1

AllDecodable(slots) == \A j \in 1..Len(slots) : Decodable(slots[j])

\* n slots cut in runs of 30: floor(n/30) full runs, then the remainder.
ChunksOf30(n) ==
    [k \in 1..((n + 29) \div 30) |->
        [j \in 1..(IF 30 * k <= n THEN 30 ELSE n % 30) |-> 30 * (k - 1) + j - 1]]

\* C1: when every one of the n box slots is populated and decodes, the
\* returned boxes are floor(n/30) groups of 30 followed by one group of
\* n mod 30 when that is not zero, in slot order (65 slots: 30, 30, 5).
C1_BoxChunking ==
    (Finished /\ AllDecodable(raw.storage)) =>
        [k \in 1..Len(result.boxes) |-> SlotsOf(result.boxes[k])]
            = ChunksOf30(Len(raw.storage))

C1_Witness ==
    /\ Finished
    /\ AllDecodable(raw.storage)
    /\ Len(raw.storage) = 65
    /\ [k \in 1..Len(result.boxes) |-> Len(result.boxes[k])] = <<30, 30, 5>>

\* ------------------------------------------------------------------ C2

\* The records of group k (from 0) come from slots 30k .. 30k+29, in
\* increasing slot order.
WithinGroup(entries, k) ==
    \A j \in 1..Len(entries) :
        /\ 30 * k <= entries[j].slot
        /\ entries[j].slot < 30 * k + 30
        /\ j > 1 => entries[j - 1].slot < entries[j].slot

\* C2: whatever the mix of empty, failing and decodable slots, every record
\* of box group k was decoded from a slot index in [30k, 30k + 30), and a
\* group's records are in increasing slot order; this holds of the closed
\* groups and of the open one throughout the loop, and of the result.
C2_FixedBoundary ==
    /\ \A k \in 1..Len(boxes) : WithinGroup(boxes[k], k - 1)
    /\ pc = "boxes" => WithinGroup(current_box, Len(boxes))
    /\ Finished =>
          \A k \in 1..Len(result.boxes) :
              /\ WithinGroup(result.boxes[k], k - 1)
              /\ \A j \in 1..Len(result.boxes[k]) :
                    result.boxes[k][j]
                        = ExpectedDict(raw.storage, result.boxes[k][j].slot)

C2_Witness ==
    /\ Finished
    /\ \E j \in 1..30 : j <= Len(raw.storage) /\ ~Decodable(raw.storage[j])
    /\ \E j \in 1..Len(raw.storage) : Empty(raw.storage[j])
    /\ \E j \in 1..Len(raw.storage) : Failing(raw.storage[j])
    /\ Len(result.boxes) >= 2
    /\ result.boxes[2] # <<>>

\* ------------------------------------------------------------------ C3

\* C3: the returned party is the decodable party slots in increasing slot
\* index, empty and failed slots left out, and never more than 6 records.
C3_PartyOrder ==
    Finished =>
        /\ SlotsOf(result.party) = DecodableIndices(raw.party)
        /\ Len(result.party) <= 6

C3_Witness ==
    /\ Finished
    /\ raw.party
         = <<"zero", "good", "zero", "good", "good", "zero">>
    /\ SlotsOf(result.party) = <<1, 3, 4>>

\* ------------------------------------------------------------------ C4

\* Every non-empty slot of the region was handed to the parser, and every
\* decodable one has its record in the output.
AllVisited(region, slots, outSlots) ==
    \A j \in 1..Len(slots) :
        /\ ~Empty(slots[j]) => <<region, j - 1>> \in parsed
        /\ Decodable(slots[j]) => (j - 1) \in outSlots

BoxSlotsOf(groups) == UNION {Range(SlotsOf(groups[k])) : k \in 1..Len(groups)}

\* C4: a slot that fails to decode never aborts the batch: once the image
\* has loaded the parse never raises, each loop stays within its slots
\* with every box slot counted, and at the return every non-empty slot has
\* been visited and every decodable slot, before or after a failing one,
\* has its record returned.
C4_FailureIsolation ==
    /\ raw.valid => pc # "raised"
    /\ pc = "party" => i <= Len(raw.party)
    /\ pc = "boxes" => i <= Len(raw.storage) /\ pokemon_count = i
    /\ Finished =>
          /\ AllVisited("party", raw.party, Range(SlotsOf(result.party)))
          /\ AllVisited("box", raw.storage, BoxSlotsOf(result.boxes))

C4_Witness ==
    /\ Finished
    /\ \E a, b, c \in 1..Len(raw.storage) :
          /\ a < b /\ b < c
          /\ Decodable(raw.storage[a])
          /\ Failing(raw.storage[b])
          /\ Decodable(raw.storage[c])
          /\ {a - 1, c - 1} \subseteq BoxSlotsOf(result.boxes)
    /\ \E a, b \in 1..Len(raw.party) :
          /\ a < b
          /\ Decodable(raw.party[a])
          /\ Failing(raw.party[b])

\* ------------------------------------------------------------------ C5

\* What the returned dictionary holds besides the records and their count.
FailureFields(res) == DOMAIN res \ {"party", "boxes", "total_pokemon"}

FailureLines(region, slots) ==
    LET failing == FailingIndices(slots)
    IN  [j \in 1..Len(failing) |-> <<region, failing[j]>>]

\* C5 as stated: when slots failed to decode, the returned value carries a
\* count or list of them.
C5_ReturnsFailures ==
    (Finished /\ diagnostics # <<>>) => FailureFields(result) # {}

\* C5 as amended: the failed slots are reported only as printed lines, one
\* per failed slot in visiting order, naming the region and the index; the
\* returned dictionary holds party, boxes and total_pokemon and nothing on
\* failures.
C5_FailuresOnlyPrinted ==
    Finished =>
        /\ diagnostics
             = FailureLines("party", raw.party) \o FailureLines("box", raw.storage)
        /\ DOMAIN result = {"party", "boxes", "total_pokemon"}

C5_Witness ==
    /\ Finished
    /\ \E j \in 1..Len(raw.party) : Failing(raw.party[j])
    /\ \E j \in 1..Len(raw.storage) : Failing(raw.storage[j])
    /\ Len(diagnostics) >= 2
    /\ result.total_pokemon >= 1

\* ------------------------------------------------------------------ C6

\* The dictionaries of all box groups, flattened in order.
RECURSIVE Flatten(_, _)
Flatten(groups, k) ==
    IF k = 0 THEN <<>> ELSE Flatten(groups, k - 1) \o groups[k]

\* Each returned record is the decode of a decodable slot, each decodable
\* slot gives exactly one record.
ExactlyTheDecodable(dicts, slots) ==
    /\ SlotsOf(dicts) = DecodableIndices(slots)
    /\ \A j \in 1..Len(dicts) : dicts[j] = ExpectedDict(slots, dicts[j].slot)

\* C6: no default or garbage record stands in for a failed or empty slot:
\* every returned record is the successful decode of a distinct non-empty
\* slot, every such slot gives exactly one record, and total_pokemon is
\* the number of non-empty slots whose decode succeeded.
C6_NoGarbage ==
    Finished =>
        /\ ExactlyTheDecodable(result.party, raw.party)
        /\ ExactlyTheDecodable(Flatten(result.boxes, Len(result.boxes)),
                               raw.storage)
        /\ result.total_pokemon
             = Len(DecodableIndices(raw.party))
               + Len(DecodableIndices(raw.storage))

C6_Witness ==
    /\ Finished
    /\ \E j \in 1..Len(raw.storage) : Failing(raw.storage[j])
    /\ \E j \in 1..Len(raw.storage) : Empty(raw.storage[j])
    /\ \E j \in 1..Len(raw.party) : Failing(raw.party[j])
    /\ result.total_pokemon >= 2
    /\ result.total_pokemon < Len(raw.party) + Len(raw.storage)

\* ------------------------------------------------------------------ C7

\* Nothing was done with the empty slots of a region: not parsed, no error
\* line, no record.
EmptyUntouched(region, slots, outSlots) ==
    \A j \in 1..Len(slots) :
        Empty(slots[j]) =>
            /\ <<region, j - 1>> \notin parsed
            /\ <<region, j - 1>> \notin Range(diagnostics)
            /\ (j - 1) \notin outSlots

EntrySlots(entries) == {entries[j].slot : j \in 1..Len(entries)}

\* C7: an all-zero slot, in the party or in a box, is skipped before
\* decoding: it is never handed to the parser, never reported as an error
\* and never gives a record, at any point of the parse.
C7_EmptySkipped ==
    /\ EmptyUntouched("party", raw.party, EntrySlots(party))
    /\ EmptyUntouched("box", raw.storage,
                      EntrySlots(current_box)
                          \cup UNION {EntrySlots(boxes[k]) : k \in 1..Len(boxes)})
    /\ Finished =>
          /\ EmptyUntouched("party", raw.party, Range(SlotsOf(result.party)))
          /\ EmptyUntouched("box", raw.storage, BoxSlotsOf(result.boxes))

C7_Witness ==
    /\ Finished
    /\ \E j \in 1..Len(raw.party) : Empty(raw.party[j])
    /\ \E j \in 1..Len(raw.party) : Decodable(raw.party[j])
    /\ parsed # {}

C7_WitnessBox ==
    /\ Finished
    /\ \E j \in 1..Len(raw.storage) : Empty(raw.storage[j])
    /\ result.boxes # <<>>

\* ------------------------------------------------------------------ C8

\* C8: when locating the save section fails, the error reaches the caller
\* at once: SaveFile is constructed once and not retried, no slot is handed
\* to a parser, no record is collected and nothing is returned.
C8_FatalPropagates ==
    ~raw.valid =>
        /\ pc \in {"start", "raised"}
        /\ loads <= 1
        /\ pc = "raised" => loads = 1
        /\ parsed = {}
        /\ party = <<>>
        /\ boxes = <<>>
        /\ current_box = <<>>
        /\ result = None

C8_Witness ==
    /\ pc = "raised"
    /\ ~raw.valid
    /\ \E j \in 1..Len(raw.party) : Decodable(raw.party[j])

\* ------------------------------------------------------------------ C9

\* The record's stored checksum is the wrapping sum of its decrypted words.
ChecksumValid(slot) ==
    slot.checksum = Checksum16(Crypt(slot.payload, XorKey(slot.pid, slot.otid)))

\* C9: a record with a valid checksum, one byte of whose encrypted payload
\* is changed to another value with the stored checksum kept, fails to
\* decode with a Checksum error; it never decodes.
C9_ChecksumRejection ==
    (pc = "decoder" /\ tampered # None /\ decoded # None /\ ChecksumValid(sample))
        => (~decoded.ok /\ decoded.error = "Checksum")

C9_Witness ==
    /\ pc = "decoder"
    /\ ChecksumValid(sample)
    /\ tampered # None
    /\ tampered.payload[2] # sample.payload[2]
    /\ decoded # None
    /\ ~decoded.ok

\* ------------------------------------------------------------------ C10

\* Whether the trailing run of n mod 30 slots holds a decodable slot.
TrailingRecord(slots) ==
    \E j \in (30 * (Len(slots) \div 30) + 1)..Len(slots) : Decodable(slots[j])

\* C10: every full run of 30 slots gives a group, records or not; the
\* trailing run of n mod 30 slots gives one only when a slot of it decoded.
\* So the group count is floor(n/30), plus 1 exactly when the trailing run
\* yielded a record, and only a full run's group can be empty.
C10_GroupCount ==
    Finished =>
        /\ Len(result.boxes)
             = (Len(raw.storage) \div 30)
               + (IF TrailingRecord(raw.storage) THEN 1 ELSE 0)
        /\ \A k \in 1..Len(result.boxes) :
              result.boxes[k] = <<>> => k <= Len(raw.storage) \div 30

C10_Witness ==
    /\ Finished
    /\ Len(raw.storage) % 30 # 0
    /\ Len(result.boxes) = 1
    /\ result.boxes[1] = <<>>

C10_WitnessTrailing ==
    /\ Finished
    /\ Len(result.boxes) = 2
    /\ result.boxes[1] = <<>>
    /\ result.boxes[2] # <<>>

====
